---- MODULE Spec2Model ----
(***************************************************************************)
(* Model of the AegisAI rule store and anomaly engine                      *)
(* (src/rules/engine.py), of the rule endpoints and the ask handler of     *)
(* src/api/main.py, of the grade filter of src/retrieval and of the        *)
(* risky-intent patterns of src/rules/intent.py.                           *)
(*                                                                         *)
(* Python values are tagged records: [t |-> "none"], [t |-> "str", v],     *)
(* [t |-> "ts", v] (a str holding an ISO-8601 timestamp, kept as its       *)
(* fields), [t |-> "int", v], [t |-> "list", v] (v a sequence) and         *)
(* [t |-> "dict", v] (v a function from keys to values).                   *)
(* [t |-> "text", v] is a str kept as the sequence of its symbols, and     *)
(* [t |-> "float", v] a float kept as its value in thousandths.            *)
(***************************************************************************)
EXTENDS Integers, Sequences, FiniteSets, TLC

VARIABLES
    file,       \* RULES_FILE on disk (src/api/main.py:26)
    heap,       \* the rule dicts allocated by yaml.safe_load, by address
    cache,      \* _RULES_CACHE: a list of addresses of rule dicts
    lock,       \* owner of _LOCK, or NoThread
    pc,         \* per worker thread: the handler step it is at
    loc,        \* per worker thread: the locals of its running handler
    resp,       \* per worker thread: the response of its last handler
    nreq,       \* number of requests accepted so far
    booted,     \* whether the startup hook has run
    published,  \* history: the rule values of the last completed set_rules
    probe       \* inputs and result of the last pure-function evaluation

vars == <<file, heap, cache, lock, pc, loc, resp, nreq, booted, published, probe>>

storeVars == <<file, heap, cache, lock, pc, loc, resp, nreq, booted, published>>

-----------------------------------------------------------------------------
(* Bounds of the model *)

MaxConds == 2

MaxRisk == 130

\* Requests the workers accept in one run
MaxReq == 3

-----------------------------------------------------------------------------
(* Python values *)

None == [t |-> "none"]

S(s) == [t |-> "str", v |-> s]

I(n) == [t |-> "int", v |-> n]

L(q) == [t |-> "list", v |-> q]

D(f) == [t |-> "dict", v |-> f]

\* An ISO-8601 timestamp string "....-..-..T<hour>:<minute>:00<offset>",
\* offset "Z" or "+HH:00", kept as the fields of its text.
Ts(h, m, off) == [t |-> "ts", v |-> [hour |-> h, minute |-> m, offset |-> off]]

Min(a, b) == IF a <= b THEN a ELSE b

Max(a, b) == IF a >= b THEN a ELSE b

\* Python ==
PyEq(a, b) == a.t = b.t /\ (a.t = "none" \/ a.v = b.v)

\* Python truthiness, as used by `v or 0` and `v or ""`
Falsy(a) ==
    \/ a.t = "none"
    \/ a.t = "int" /\ a.v = 0
    \/ a.t = "str" /\ a.v = ""
    \/ a.t = "list" /\ a.v = <<>>
    \/ a.t = "text" /\ a.v = <<>>
    \/ a.t = "float" /\ a.v = 0

\* `v in val` for a list val
PyIn(v, val) == \E i \in 1..Len(val.v) : PyEq(v, val.v[i])

\* str.lower() on the strings of the model (re.I compares case-insensitively)
Lower(s) ==
    CASE s = "LOGIN" -> "login"
      [] s = "FAILED" -> "failed"
      [] OTHER -> s

\* The literal patterns of the model and the lower-case strings that contain them
PatternHits(p) ==
    CASE Lower(p) = "fail" -> {"failed"}
      [] Lower(p) = "log" -> {"login", "logout"}
      [] OTHER -> {Lower(p)}

\* bool(re.search(pat, text, flags=re.I)) for a literal pattern
ReSearch(pat, text) == Lower(pat) = "" \/ Lower(text) \in PatternHits(pat)

\* Result of a call that may raise
Ok(b) == [raised |-> FALSE, val |-> b]

Raise == [raised |-> TRUE, val |-> FALSE]

-----------------------------------------------------------------------------
(* src/rules/engine.py: the condition evaluator *)

\* _parse_iso(ts).hour: the hour field of the timestamp text, in the
\* timestamp's own offset (fromisoformat does not convert to UTC)
ParseIsoHour(ts) == ts.v.hour

BetweenHoursWrapAnd(ts, start, end) ==
    LET h == ParseIsoHour(ts) IN
    IF start <= end THEN start <= h /\ h < end
    ELSE (h >= start) /\ (h < end)

between_hours(ts, start, end) ==
    LET h == ParseIsoHour(ts) IN
    IF start <= end THEN start <= h /\ h < end
    ELSE (h >= start) \/ (h < end)

\* _get(d, path): path is the dotted path already split at "."
RECURSIVE PyGet(_, _)
PyGet(cur, path) ==
    IF path = <<>> THEN cur
    ELSE IF cur.t # "dict" \/ Head(path) \notin DOMAIN cur.v THEN None
    ELSE PyGet(cur.v[Head(path)], Tail(path))

\* ev.get(key)
DictGet(d, key) == IF key \in DOMAIN d.v THEN d.v[key] ELSE None

\* check(cond) of eval_rule
Check(cond, ev) ==
    LET field == cond.field
        op == cond.op
        val == cond.value
        v == IF Len(field) > 1 THEN PyGet(ev, field) ELSE DictGet(ev, field[1])
        num == IF Falsy(v) THEN I(0) ELSE v
        txt == IF Falsy(v) THEN S("") ELSE v
    IN
    CASE op = "equals" -> Ok(PyEq(v, val))
      [] op = "in" -> IF val.t = "list" THEN Ok(PyIn(v, val)) ELSE Raise
      [] op = "in_set" -> Ok(val.t = "list" /\ PyIn(v, val))
      [] op = "gt" ->
            IF num.t = "int" /\ val.t = "int" THEN Ok(num.v > val.v) ELSE Raise
      [] op = "gte" ->
            IF num.t = "int" /\ val.t = "int" THEN Ok(num.v >= val.v) ELSE Raise
      [] op = "regex" ->
            IF txt.t = "str" /\ val.t = "str" THEN Ok(ReSearch(val.v, txt.v))
            ELSE Raise
      [] op = "not_regex" ->
            IF txt.t = "str" /\ val.t = "str" THEN Ok(~ReSearch(val.v, txt.v))
            ELSE Raise
      [] op = "between_hours" ->
            IF /\ v.t = "ts"
               /\ val.t = "list"
               /\ Len(val.v) >= 2
               /\ val.v[1].t = "int"
               /\ val.v[2].t = "int"
            THEN Ok(between_hours(v, val.v[1].v, val.v[2].v))
            ELSE Raise
      [] OTHER -> Ok(FALSE)

\* all(check(c) for c in conds): stops at the first false child
RECURSIVE AllChecks(_, _)
AllChecks(conds, ev) ==
    IF conds = <<>> THEN Ok(TRUE)
    ELSE LET r == Check(Head(conds), ev) IN
         IF r.raised THEN Raise
         ELSE IF ~r.val THEN Ok(FALSE)
         ELSE AllChecks(Tail(conds), ev)

\* any(check(c) for c in conds): stops at the first true child
RECURSIVE AnyChecks(_, _)
AnyChecks(conds, ev) ==
    IF conds = <<>> THEN Ok(FALSE)
    ELSE LET r == Check(Head(conds), ev) IN
         IF r.raised THEN Raise
         ELSE IF r.val THEN Ok(TRUE)
         ELSE AnyChecks(Tail(conds), ev)

EvalRuleAnyAsAll(rule, ev) ==
    IF "when" \notin DOMAIN rule THEN Raise
    ELSE LET clause == rule.when IN
         IF "all" \in DOMAIN clause THEN AllChecks(clause.all, ev)
         ELSE IF "any" \in DOMAIN clause THEN AllChecks(clause.any, ev)
         ELSE Ok(FALSE)

\* eval_rule(rule, ev); rule["when"] raises KeyError on a rule without `when`
eval_rule(rule, ev) ==
    IF "when" \notin DOMAIN rule THEN Raise
    ELSE LET clause == rule.when IN
         IF "all" \in DOMAIN clause THEN AllChecks(clause.all, ev)
         ELSE IF "any" \in DOMAIN clause THEN AnyChecks(clause.any, ev)
         ELSE Ok(FALSE)

-----------------------------------------------------------------------------
(* src/rules/engine.py: analyze_events *)

ScoreCap == 100

ScoreFloor == 10

RiskScoreUncapped(risk) == Max(ScoreFloor, risk)

RiskScoreNoFloor(risk) == Min(ScoreCap, risk)

\* "risk_score": min(100, max(10, risk))
RiskScore(risk) == Min(ScoreCap, Max(ScoreFloor, risk))

\* The loop `for r in rules: pass`: the matching logic is a placeholder, so
\* the accumulators leave the loop as they entered it.
RECURSIVE RuleLoop(_, _, _)
RuleLoop(rules, ev, acc) ==
    IF rules = <<>> THEN acc
    ELSE RuleLoop(Tail(rules), ev, acc)

\* `if matched_signals: anomalies.append({...})`: the anomalies one event adds
EmitAnomaly(ev, acc) ==
    IF acc.matched_signals # <<>>
    THEN << [event_id |-> IF "event_id" \in DOMAIN ev.v THEN ev.v.event_id ELSE S(""),
             signals |-> acc.matched_signals,
             risk_score |-> RiskScore(acc.risk),
             explain |-> <<"Matched rules: ", acc.matched_signals>>] >>
    ELSE <<>>

\* One iteration of `for ev in events` over the snapshot `rules`
AnalyzeOne(rules, ev) ==
    EmitAnomaly(ev, RuleLoop(rules, ev, [matched_signals |-> <<>>, risk |-> 0]))

-----------------------------------------------------------------------------
(* The rules, events and requests of the model *)

CondActionLogin == [field |-> <<"action">>, op |-> "in", value |-> L(<<S("login")>>)]

CondStatusFailed == [field |-> <<"status">>, op |-> "equals", value |-> S("failed")]

CondNight == [field |-> <<"timestamp">>, op |-> "between_hours", value |-> L(<<I(22), I(6)>>)]

CondManyFails ==
    [field |-> <<"risk_context", "failed_logins">>, op |-> "gt", value |-> I(2)]

\* The rule of the specification's scenario
RuleA ==
    [id |-> "R1", risk_points |-> 5,
     when |-> [all |-> <<CondActionLogin, CondStatusFailed, CondNight>>]]

\* A second rule with the id of RuleA
RuleA2 == [id |-> "R1", risk_points |-> 120, when |-> [any |-> <<CondManyFails>>]]

RuleB == [id |-> "R2", risk_points |-> 120, when |-> [any |-> <<CondManyFails>>]]

\* RuleB with the descriptive fields of a suggested rule: no severity, and a
\* match that is a string
RuleC ==
    [id |-> "R2", risk_points |-> 120, when |-> [any |-> <<CondManyFails>>],
     name |-> S("Many failed logins"), description |-> S("Repeated failures"),
     match |-> S("login"), conditions |-> D([logic |-> S("any")]),
     remediation |-> L(<<S("Reset the password")>>)]

\* {action: login, status: failed, role: Cabin Crew, timestamp: 2025-01-01T23:10:00Z}
EventNightLogin ==
    D([event_id |-> S("e1"), action |-> S("login"), status |-> S("failed"),
       role |-> S("Cabin Crew"), timestamp |-> Ts(23, 10, "Z")])

EventDayLogout ==
    D([event_id |-> S("e2"), action |-> S("logout"), status |-> S("success"),
       timestamp |-> Ts(10, 0, "Z")])

-----------------------------------------------------------------------------
(* The rule store: src/rules/engine.py and the handlers of src/api/main.py *)

Threads == {"w1", "w2"}

NoThread == "nobody"

\* RULES_FILE: absent, or its text by what yaml.safe_load makes of it
FileMissing == [kind |-> "missing", rules |-> <<>>]

\* an empty file, as left by open(RULES_FILE, "w"): safe_load gives None
FileEmpty == [kind |-> "empty", rules |-> <<>>]

\* text that is no YAML, or whose top level is no mapping
FileGarbage == [kind |-> "garbage", rules |-> <<>>]

\* a mapping whose `rules` entry is not a list
FileNoList == [kind |-> "nolist", rules |-> <<>>]

\* a mapping with the list q under `rules`
FileRules(q) == [kind |-> "rules", rules |-> q]

\* The rules files found at process start
InitFiles ==
    {FileMissing, FileGarbage, FileNoList, FileRules(<<RuleA>>),
     FileRules(<<RuleA, RuleA2>>)}

\* The YAML texts posted to /rules/apply: a rule mapping, or text that is none
ApplyBodies == {RuleA, RuleB, RuleC}

NotARule == [kind |-> "garbage"]

\* A validation that does not ask for severity
ValidateWithoutSeverity(d) ==
    LET required == <<"id", "name", "description", "match", "conditions",
                      "risk_points", "remediation">>
        missing == SelectSeq(required, LAMBDA k : k \notin DOMAIN d)
    IN [i \in 1..Len(missing) |-> <<"Missing key: ", missing[i]>>]

\* _validate_rule_dict: one warning per missing key, then the structure
\* hints; a text is the tuple of its pieces
_validate_rule_dict(d) ==
    LET required == <<"id", "name", "description", "match", "conditions",
                      "severity", "risk_points", "remediation">>
        missing == SelectSeq(required, LAMBDA k : k \notin DOMAIN d)
    IN [i \in 1..Len(missing) |-> <<"Missing key: ", missing[i]>>]
       \o (IF "match" \in DOMAIN d /\ d["match"].t # "dict"
           THEN << <<"match should be an object">> >> ELSE <<>>)
       \o (IF "conditions" \in DOMAIN d /\ d["conditions"].t # "dict"
           THEN << <<"conditions should be an object">> >> ELSE <<>>)
       \o (IF "remediation" \in DOMAIN d /\ d["remediation"].t # "list"
           THEN << <<"remediation should be a list of steps">> >> ELSE <<>>)

\* ', '.join(warns), as the sequence of its pieces
JoinComma(warns) ==
    [i \in 1..(2 * Len(warns) - 1) |->
        IF i % 2 = 1 THEN warns[(i + 1) \div 2] ELSE <<", ">>]

\* apply_rule, lines 403-406: the message of the answer, as its pieces
ApplyMessage(warns) ==
    << <<"Saved to rules.yaml">> >>
    \o (IF warns # <<>>
        THEN << <<" (warnings: ">> >> \o JoinComma(warns) \o << <<")">> >>
        ELSE <<>>)

Batches == {<<EventNightLogin, EventDayLogout>>}

Idle == [h |-> "none"]

Deref(refs) == [i \in 1..Len(refs) |-> heap[refs[i]]]

Ids(rules) == {rules[i].id : i \in 1..Len(rules)}

\* The addresses yaml.safe_load gives the dicts of a freshly parsed list
FreshRefs(q) == [i \in 1..Len(q) |-> Len(heap) + i]

\* A loader that takes a `rules` entry that is no list for an empty list
LoadLenient(f) ==
    CASE f.kind \in {"missing", "garbage"} -> [raised |-> TRUE, rules |-> <<>>]
      [] f.kind \in {"empty", "nolist"} -> [raised |-> FALSE, rules |-> <<>>]
      [] OTHER -> [raised |-> FALSE, rules |-> f.rules]

\* load_rules_from_file(path): the parsed `rules` list, or an exception
LoadRulesFromFile(f) ==
    CASE f.kind \in {"missing", "garbage", "nolist"} ->
            [raised |-> TRUE, rules |-> <<>>]
      [] f.kind = "empty" -> [raised |-> FALSE, rules |-> <<>>]
      [] OTHER -> [raised |-> FALSE, rules |-> f.rules]

GetRulesUnlocked(t) == TRUE

\* `with _LOCK:` of get_rules: the RLock is free or held by the caller
GetRulesEnabled(t) == lock = NoThread \/ lock = t

\* `with _LOCK:` of set_rules
SetRulesEnabled(t) == lock = NoThread \/ lock = t

Others(t) == Threads \ {t}

Quiet(t) == lock = NoThread /\ \A u \in Others(t) : pc[u] = "idle"

Accept == booted /\ nreq < MaxReq /\ nreq' = nreq + 1

Finish(t, r) ==
    /\ pc' = [pc EXCEPT ![t] = "idle"]
    /\ loc' = [loc EXCEPT ![t] = Idle]
    /\ resp' = [resp EXCEPT ![t] = r]

\* _load_rules_startup: runs before any request is served
Startup ==
    /\ ~booted
    /\ booted' = TRUE
    /\ LET seeded == IF file.kind = "missing" THEN FileRules(<<>>) ELSE file
           ld == LoadRulesFromFile(seeded)
       IN /\ file' = seeded
          /\ IF ld.raised
             THEN UNCHANGED <<heap, cache, published>>
             ELSE /\ heap' = heap \o ld.rules
                  /\ cache' = FreshRefs(ld.rules)
                  /\ published' = ld.rules
    /\ UNCHANGED <<lock, pc, loc, resp, nreq, probe>>

\* The rules file is changed on disk between requests, which is what
\* reload_rules is for: here to text that cannot be loaded
EditFile ==
    /\ booted
    /\ \A t \in Threads : pc[t] = "idle"
    /\ file.kind = "rules"
    /\ file' = FileGarbage
    /\ UNCHANGED <<heap, cache, lock, pc, loc, resp, nreq, booted, published, probe>>

\* apply_rule, lines 383-387: the posted text is not a YAML mapping
ApplyReject(t) ==
    /\ pc[t] = "idle"
    /\ Accept
    /\ resp' = [resp EXCEPT ![t] = [h |-> "apply", status |-> 500, rule |-> NotARule]]
    /\ UNCHANGED <<file, heap, cache, lock, pc, loc, booted, published, probe>>

\* apply_rule, lines 383-400: parse, _ensure_rules_file, read the file, check the id
ApplyBegin(t, new_rule) ==
    /\ pc[t] = "idle"
    /\ Accept
    /\ LET seeded == IF file.kind = "missing" THEN FileRules(<<>>) ELSE file
           rules == IF seeded.kind = "rules" THEN seeded.rules ELSE <<>>
           dup == new_rule.id \in Ids(Deref(cache)) /\ Quiet(t)
       IN /\ file' = seeded
          /\ IF seeded.kind = "garbage"
             THEN Finish(t, [h |-> "apply", status |-> 500, rule |-> new_rule])
             ELSE IF new_rule.id \in Ids(rules)
             THEN Finish(t, [h |-> "apply", status |-> 409, rule |-> new_rule])
             ELSE /\ pc' = [pc EXCEPT ![t] = "ap_open"]
                  /\ loc' = [loc EXCEPT ![t] =
                        [h |-> "apply", rule |-> new_rule,
                         doc |-> Append(rules, new_rule), dupActive |-> dup]]
                  /\ UNCHANGED resp
    /\ UNCHANGED <<heap, cache, lock, booted, published, probe>>

\* apply_rule, line 401: open(RULES_FILE, "w") truncates the file
ApplyOpen(t) ==
    /\ pc[t] = "ap_open"
    /\ file' = FileEmpty
    /\ pc' = [pc EXCEPT ![t] = "ap_dump"]
    /\ UNCHANGED <<heap, cache, lock, loc, resp, nreq, booted, published, probe>>

\* apply_rule, line 402: yaml.safe_dump(doc, f) and close
ApplyDump(t) ==
    /\ pc[t] = "ap_dump"
    /\ file' = FileRules(loc[t].doc)
    /\ pc' = [pc EXCEPT ![t] = "ap_load"]
    /\ UNCHANGED <<heap, cache, lock, loc, resp, nreq, booted, published, probe>>

\* load_rules_from_file as called by apply_rule (line 404) and reload_rules (420)
LoadStep(t, h, extra) ==
    LET ld == LoadRulesFromFile(file) IN
    IF ld.raised
    THEN /\ Finish(t, [h |-> h, status |-> 500, rule |-> extra])
         /\ UNCHANGED heap
    ELSE /\ heap' = heap \o ld.rules
         /\ pc' = [pc EXCEPT ![t] = "set_clear"]
         /\ loc' = [loc EXCEPT ![t] =
                [h |-> h, rule |-> extra, rules |-> FreshRefs(ld.rules)]]
         /\ UNCHANGED resp

ApplyLoad(t) ==
    /\ pc[t] = "ap_load"
    /\ LoadStep(t, "apply", loc[t].rule)
    /\ UNCHANGED <<file, cache, lock, nreq, booted, published, probe>>

\* reload_rules, line 420
ReloadBegin(t) ==
    /\ pc[t] = "idle"
    /\ Accept
    /\ LoadStep(t, "reload", NotARule)
    /\ UNCHANGED <<file, cache, lock, booted, published, probe>>

\* set_rules, lines 20-22: take _LOCK, _RULES_CACHE.clear()
SetClear(t) ==
    /\ pc[t] = "set_clear"
    /\ SetRulesEnabled(t)
    /\ lock' = t
    /\ cache' = <<>>
    /\ pc' = [pc EXCEPT ![t] = "set_extend"]
    /\ UNCHANGED <<file, heap, loc, resp, nreq, booted, published, probe>>

\* set_rules, line 23: _RULES_CACHE.extend(rules), release _LOCK; the handler returns
SetExtend(t) ==
    /\ pc[t] = "set_extend"
    /\ cache' = cache \o loc[t].rules
    /\ lock' = NoThread
    /\ published' = Deref(loc[t].rules)
    /\ Finish(t, [h |-> loc[t].h, status |-> 200, rule |-> loc[t].rule,
                  message |-> IF loc[t].h = "apply"
                              THEN ApplyMessage(_validate_rule_dict(loc[t].rule))
                              ELSE <<>>])
    /\ UNCHANGED <<file, heap, nreq, booted, probe>>

\* list_rules, line 428: the first get_rules()
ListFirst(t) ==
    /\ pc[t] = "idle"
    /\ Accept
    /\ GetRulesEnabled(t)
    /\ pc' = [pc EXCEPT ![t] = "ls_count"]
    /\ loc' = [loc EXCEPT ![t] = [h |-> "list", rules |-> cache, seen |-> published]]
    /\ UNCHANGED <<file, heap, cache, lock, resp, booted, published, probe>>

\* list_rules, line 428: len(get_rules()) and the response
ListCount(t) ==
    /\ pc[t] = "ls_count"
    /\ GetRulesEnabled(t)
    /\ Finish(t, [h |-> "list", status |-> 200, rules |-> Deref(loc[t].rules),
                  count |-> Len(cache), seen |-> loc[t].seen, seenCount |-> Len(published)])
    /\ UNCHANGED <<file, heap, cache, lock, nreq, booted, published, probe>>

\* analyze_events, lines 89-90: rules = get_rules()
AnalyzeBegin(t, events) ==
    /\ pc[t] = "idle"
    /\ Accept
    /\ GetRulesEnabled(t)
    /\ pc' = [pc EXCEPT ![t] = "an_loop"]
    /\ loc' = [loc EXCEPT ![t] =
            [h |-> "analyze", rules |-> cache, seen |-> published, events |-> events,
             anomalies |-> <<>>, used |-> <<>>, pubs |-> <<>>]]
    /\ UNCHANGED <<file, heap, cache, lock, resp, booted, published, probe>>

RulesForEventReread(t) == cache

\* The rule list the iteration for one event walks: the local `rules`
RulesForEvent(t) == loc[t].rules

\* analyze_events, lines 91-107: one iteration of `for ev in events`; the last returns
AnalyzeEvent(t) ==
    /\ pc[t] = "an_loop"
    /\ LET l == loc[t]
           k == Len(l.used) + 1
           rules == Deref(RulesForEvent(t))
           nl == [l EXCEPT !.anomalies = @ \o AnalyzeOne(rules, l.events[k]),
                           !.used = Append(@, rules),
                           !.pubs = Append(@, published)]
       IN IF k < Len(l.events)
          THEN /\ loc' = [loc EXCEPT ![t] = nl]
               /\ UNCHANGED <<pc, resp>>
          ELSE Finish(t, [h |-> "analyze", status |-> 200, events |-> nl.events,
                          anomalies |-> nl.anomalies, used |-> nl.used,
                          pubs |-> nl.pubs, seen |-> nl.seen])
    /\ UNCHANGED <<file, heap, cache, lock, nreq, booted, published, probe>>

Init ==
    /\ file \in InitFiles
    /\ heap = <<>>
    /\ cache = <<>>
    /\ lock = NoThread
    /\ pc = [t \in Threads |-> "idle"]
    /\ loc = [t \in Threads |-> Idle]
    /\ resp = [t \in Threads |-> Idle]
    /\ nreq = 0
    /\ booted = FALSE
    /\ published = <<>>
    /\ probe = [kind |-> "none"]

Next ==
    \/ Startup
    \/ EditFile
    \/ \E t \in Threads :
        \/ ApplyReject(t)
        \/ \E r \in ApplyBodies : ApplyBegin(t, r)
        \/ ApplyOpen(t)
        \/ ApplyDump(t)
        \/ ApplyLoad(t)
        \/ ReloadBegin(t)
        \/ SetClear(t)
        \/ SetExtend(t)
        \/ ListFirst(t)
        \/ ListCount(t)
        \/ \E b \in Batches : AnalyzeBegin(t, b)
        \/ AnalyzeEvent(t)

Spec == Init /\ [][Next]_vars

-----------------------------------------------------------------------------
(* An in-process caller of get_rules() that keeps and changes what it got *)

\* snapshot = get_rules()
ClientGet(t) ==
    /\ pc[t] = "idle"
    /\ Accept
    /\ GetRulesEnabled(t)
    /\ pc' = [pc EXCEPT ![t] = "cl_held"]
    /\ loc' = [loc EXCEPT ![t] = [h |-> "client", rules |-> cache, touched |-> "none"]]
    /\ UNCHANGED <<file, heap, cache, lock, resp, booted, published, probe>>

\* snapshot.pop() or snapshot.append(snapshot[0]): the caller's own list changes
ClientChangeList(t) ==
    /\ pc[t] = "cl_held"
    /\ loc[t].touched = "none"
    /\ loc[t].rules # <<>>
    /\ \E q \in {Tail(loc[t].rules), Append(loc[t].rules, loc[t].rules[1])} :
          loc' = [loc EXCEPT ![t].rules = q, ![t].touched = "list"]
    /\ UNCHANGED <<file, heap, cache, lock, pc, resp, nreq, booted, published, probe>>

\* snapshot[i]["risk_points"] = 999: the dict is the one the cache holds too
ClientChangeRule(t) ==
    /\ pc[t] = "cl_held"
    /\ loc[t].touched = "none"
    /\ \E i \in 1..Len(loc[t].rules) :
          heap' = [heap EXCEPT ![loc[t].rules[i]].risk_points = 999]
    /\ loc' = [loc EXCEPT ![t].touched = "rule"]
    /\ UNCHANGED <<file, cache, lock, pc, resp, nreq, booted, published, probe>>

\* a later get_rules()
ClientGetAgain(t) ==
    /\ pc[t] = "cl_held"
    /\ loc[t].touched # "none"
    /\ GetRulesEnabled(t)
    /\ Finish(t, [h |-> "client", status |-> 200, touched |-> loc[t].touched,
                  rules |-> Deref(cache), seen |-> published])
    /\ UNCHANGED <<file, heap, cache, lock, nreq, booted, published, probe>>

NextCaller ==
    \/ Next
    \/ \E t \in Threads :
        \/ ClientGet(t)
        \/ ClientChangeList(t)
        \/ ClientChangeRule(t)
        \/ ClientGetAgain(t)

SpecCaller == Init /\ [][NextCaller]_vars

-----------------------------------------------------------------------------
(* The pure functions of src/rules/engine.py on drawn inputs *)

CondRegexFail == [field |-> <<"status">>, op |-> "regex", value |-> S("FAIL")]

CondNotLog == [field |-> <<"action">>, op |-> "not_regex", value |-> S("log")]

CondFailsGte == [field |-> <<"risk_context", "failed_logins">>, op |-> "gte", value |-> I(3)]

CondInSet == [field |-> <<"action">>, op |-> "in_set", value |-> L(<<S("login"), S("logout")>>)]

\* `in` with no value: cond.get("value") is None and `v in None` raises
CondInNone == [field |-> <<"action">>, op |-> "in", value |-> None]

CondUnknownOp == [field |-> <<"action">>, op |-> "startswith", value |-> S("log")]

PureConds ==
    {CondActionLogin, CondStatusFailed, CondNight, CondManyFails, CondRegexFail,
     CondNotLog, CondFailsGte, CondInSet, CondInNone, CondUnknownOp}

\* Sequences over S of length at most n
RECURSIVE SeqsUpTo(_, _)
SeqsUpTo(S_, n) ==
    IF n = 0 THEN {<<>>}
    ELSE LET shorter == SeqsUpTo(S_, n - 1) IN
         shorter \cup {Append(q, x) : q \in shorter, x \in S_}

CondLists == SeqsUpTo(PureConds, MaxConds)

PureClauses ==
    {[all |-> q] : q \in CondLists}
    \cup {[any |-> q] : q \in CondLists}
    \cup {[all |-> q, any |-> r] : q \in SeqsUpTo(PureConds, 1), r \in SeqsUpTo(PureConds, 1)}
    \cup {[logic |-> "AND"]}

PureRules ==
    {[id |-> "R9", risk_points |-> 5, when |-> c] : c \in PureClauses}
    \cup {[id |-> "R9", risk_points |-> 5]}

EventRepeatOffender ==
    D([event_id |-> S("e3"), action |-> S("LOGIN"), status |-> S("FAILED"),
       risk_context |-> D([failed_logins |-> I(3)])])

EventBare == D([action |-> S("access")])

PureEvents == {EventNightLogin, EventDayLogout, EventRepeatOffender, EventBare}

Hours == 0..23

ProbeBetween ==
    /\ probe.kind = "none"
    /\ \E h \in Hours, off \in {"Z", "+04:00"}, start \in Hours, end \in Hours :
          probe' = [kind |-> "between", ts |-> Ts(h, 10, off), start |-> start,
                    end |-> end, out |-> between_hours(Ts(h, 10, off), start, end)]
    /\ UNCHANGED storeVars

ProbeEval ==
    /\ probe.kind = "none"
    /\ \E rule \in PureRules, ev \in PureEvents :
          probe' = [kind |-> "eval", rule |-> rule, ev |-> ev, out |-> eval_rule(rule, ev)]
    /\ UNCHANGED storeVars

\* Lines 100-106 on the accumulators a matching loop would leave
ProbeEmit ==
    /\ probe.kind = "none"
    /\ \E ev \in PureEvents, sigs \in {<<>>, <<"R1">>, <<"R1", "R2">>},
          risk \in (0 - 5)..MaxRisk :
          probe' = [kind |-> "emit", ev |-> ev, sigs |-> sigs, risk |-> risk,
                    out |-> EmitAnomaly(ev, [matched_signals |-> sigs, risk |-> risk])]
    /\ UNCHANGED storeVars

InitPure ==
    /\ file = FileMissing
    /\ heap = <<>>
    /\ cache = <<>>
    /\ lock = NoThread
    /\ pc = [t \in Threads |-> "idle"]
    /\ loc = [t \in Threads |-> Idle]
    /\ resp = [t \in Threads |-> Idle]
    /\ nreq = 0
    /\ booted = FALSE
    /\ published = <<>>
    /\ probe = [kind |-> "none"]

NextPure == ProbeBetween \/ ProbeEval \/ ProbeEmit

SpecPure == InitPure /\ [][NextPure]_vars

-----------------------------------------------------------------------------
(* src/retrieval: grade normalisation and the visibility filters           *)
(*                                                                         *)
(* The strings of this section are [t |-> "text", v] with v the sequence   *)
(* of the string's symbols; a symbol is one character, or one word of the  *)
(* filter language ("visibility", "eq", "restricted", ...).                *)

T(q) == [t |-> "text", v |-> q]

\* The whitespace characters of the model
Whitespace == {" "}

RECURSIVE LStrip(_)
LStrip(q) == IF q # <<>> /\ Head(q) \in Whitespace THEN LStrip(Tail(q)) ELSE q

RECURSIVE RStrip(_)
RStrip(q) ==
    IF q # <<>> /\ q[Len(q)] \in Whitespace
    THEN RStrip(SubSeq(q, 1, Len(q) - 1))
    ELSE q

\* str.strip()
Strip(q) == RStrip(LStrip(q))

\* A normalisation that removes at most one blank from each end
NormalizeGradeOneBlank(g) ==
    LET q == IF Falsy(g) THEN <<>> ELSE g.v
        l == IF q # <<>> /\ Head(q) \in Whitespace THEN Tail(q) ELSE q
    IN T(IF l # <<>> /\ l[Len(l)] \in Whitespace THEN SubSeq(l, 1, Len(l) - 1) ELSE l)

\* _normalize_grade: (g or "").strip()
_normalize_grade(g) == T(Strip(IF Falsy(g) THEN <<>> ELSE g.v))

\* _policy_filter_for_grade: the f-string, g pasted between the quotes as it is
_policy_filter_for_grade(g) ==
    <<"(", "visibility", " ", "ne", " ", "'", "restricted", "'", ")", " ",
      "or", " ", "(", "visibility", " ", "eq", " ", "'", "restricted", "'", " ",
      "and", " ", "allowed_grades/any(x:", " ", "x", " ", "eq", " ", "'">>
    \o g.v \o <<"'", ")", ")">>

\* The search service reading the filter: blanks between tokens are skipped
SkipWs(q) == LStrip(q)

NextSym(q) == IF SkipWs(q) = <<>> THEN "" ELSE Head(SkipWs(q))

AfterSym(q) == Tail(SkipWs(q))

BadFilter == [ok |-> FALSE, val |-> FALSE, rest |-> <<>>]

\* A string literal: from the quote after q's first symbol to the next single
\* quote; a doubled quote stands for one quote inside the literal
RECURSIVE ReadLiteral(_, _)
ReadLiteral(q, acc) ==
    IF q = <<>> THEN [ok |-> FALSE, lit |-> acc, rest |-> <<>>]
    ELSE IF Head(q) = "'"
         THEN IF Len(q) >= 2 /\ q[2] = "'"
              THEN ReadLiteral(Tail(Tail(q)), Append(acc, "'"))
              ELSE [ok |-> TRUE, lit |-> acc, rest |-> Tail(q)]
         ELSE ReadLiteral(Tail(q), Append(acc, Head(q)))

Literal(q) ==
    IF NextSym(q) = "'" THEN ReadLiteral(AfterSym(q), <<>>)
    ELSE [ok |-> FALSE, lit |-> <<>>, rest |-> <<>>]

RECURSIVE FilterOr(_, _)
RECURSIVE FilterAnd(_, _)
RECURSIVE FilterAtom(_, _)

\* ( expr ) | visibility eq|ne 'lit' | allowed_grades/any(x: x eq 'lit')
FilterAtom(c, q) ==
    CASE NextSym(q) = "(" ->
            LET r == FilterOr(c, AfterSym(q)) IN
            IF r.ok /\ NextSym(r.rest) = ")"
            THEN [ok |-> TRUE, val |-> r.val, rest |-> AfterSym(r.rest)]
            ELSE BadFilter
      [] NextSym(q) = "visibility" ->
            LET op == NextSym(AfterSym(q))
                l == Literal(AfterSym(AfterSym(q)))
            IN IF op \in {"eq", "ne"} /\ l.ok
               THEN [ok |-> TRUE, rest |-> l.rest,
                     val |-> IF op = "eq" THEN c.visibility = l.lit
                                          ELSE c.visibility # l.lit]
               ELSE BadFilter
      [] NextSym(q) = "allowed_grades/any(x:" ->
            LET q1 == AfterSym(q)
                q2 == AfterSym(q1)
                l == Literal(AfterSym(q2))
            IN IF NextSym(q1) = "x" /\ NextSym(q2) = "eq" /\ l.ok
                  /\ NextSym(l.rest) = ")"
               THEN [ok |-> TRUE, rest |-> AfterSym(l.rest),
                     val |-> \E i \in 1..Len(c.allowed_grades) :
                                 c.allowed_grades[i] = l.lit]
               ELSE BadFilter
      [] OTHER -> BadFilter

FilterAnd(c, q) ==
    LET a == FilterAtom(c, q) IN
    IF a.ok /\ NextSym(a.rest) = "and"
    THEN LET b == FilterAnd(c, AfterSym(a.rest)) IN
         IF b.ok THEN [ok |-> TRUE, val |-> a.val /\ b.val, rest |-> b.rest]
         ELSE BadFilter
    ELSE a

FilterOr(c, q) ==
    LET a == FilterAnd(c, q) IN
    IF a.ok /\ NextSym(a.rest) = "or"
    THEN LET b == FilterOr(c, AfterSym(a.rest)) IN
         IF b.ok THEN [ok |-> TRUE, val |-> a.val \/ b.val, rest |-> b.rest]
         ELSE BadFilter
    ELSE a

\* _client.search(filter=flt) on one document: the filter's value, or the
\* service's error for a filter it cannot parse
SearchFilter(c, flt) ==
    LET r == FilterOr(c, flt) IN
    IF r.ok /\ SkipWs(r.rest) = <<>> THEN Ok(r.val) ELSE Raise

\* `top` of get_chunks and the [:5] of the local retriever
TopChunks == 5

FirstN(q, n) == SubSeq(q, 1, Min(n, Len(q)))

\* retrieval/azure_retriever.py get_chunks over an index whose every document
\* matches the query text
get_chunks(index, user_grade) ==
    LET flt == _policy_filter_for_grade(_normalize_grade(user_grade)) IN
    IF \E i \in 1..Len(index) : SearchFilter(index[i], flt).raised
    THEN [raised |-> TRUE, val |-> <<>>]
    ELSE [raised |-> FALSE,
          val |-> FirstN(SelectSeq(index, LAMBDA c : SearchFilter(c, flt).val),
                         TopChunks)]

\* retrieval/local_retriever.py get_chunks.allowed
allowed(rec, user_grade) ==
    IF rec.visibility = <<"public">> THEN TRUE
    ELSE IF Falsy(user_grade) THEN FALSE
    ELSE \E i \in 1..Len(rec.allowed_grades) : rec.allowed_grades[i] = user_grade.v

\* retrieval/local_retriever.py get_chunks over policies that all match the query
local_get_chunks(policies, user_grade) ==
    FirstN(SelectSeq(policies, LAMBDA r : allowed(r, user_grade)), TopChunks)

\* The corpus of the model
Chunk(id, vis, grades) ==
    [policy_id |-> <<"EK", id>>, clause_id |-> id, clause_text |-> <<"text of", id>>,
     visibility |-> <<vis>>, allowed_grades |-> grades]

G3 == <<"G", "3">>

G2 == <<"G", "2">>

Corpus ==
    << Chunk("PUB", "public", <<>>),
       Chunk("R3", "restricted", <<G3>>),
       Chunk("R23", "restricted", <<G2, G3>>),
       Chunk("R0", "restricted", <<>>) >>

\* The grades a request may carry: absent, every short text over the grade
\* characters, blank-padded grades, and a text holding filter syntax
MaxGradeLen == 3

GradeChars == {" ", "G", "g", "3", "2", "'"}

GradeWithSyntax ==
    <<"x", "'", ")", " ", "or", " ", "(", "visibility", " ", "eq", " ", "'",
      "restricted">>

Grades ==
    {None} \cup {T(q) : q \in SeqsUpTo(GradeChars, MaxGradeLen)}
    \cup {T(<<" ", " ">> \o G3), T(G3 \o <<" ", " ">>), T(GradeWithSyntax)}

ProbeNormalize ==
    /\ probe.kind = "none"
    /\ \E g \in Grades :
          probe' = [kind |-> "grade", g |-> g, out |-> _normalize_grade(g),
                    again |-> _normalize_grade(_normalize_grade(g))]
    /\ UNCHANGED storeVars

ProbeChunks ==
    /\ probe.kind = "none"
    /\ \E g \in Grades :
          probe' = [kind |-> "chunks", grade |-> g,
                    azure |-> get_chunks(Corpus, g),
                    local |-> local_get_chunks(Corpus, g)]
    /\ UNCHANGED storeVars

-----------------------------------------------------------------------------
(* src/rules/intent.py: the risky-intent patterns                          *)
(*                                                                         *)
(* A query is the sequence of its words.  A pattern \bA\b.*\b(B|C)\b is the *)
(* sequence of its groups, a group the set of its alternatives, and an     *)
(* alternative the words it spells (employee\s*records is two words).      *)

Alt(w) == <<w>>

RISKY_PATTERNS ==
    << << {Alt("email")}, {Alt("crew"), Alt("roster"), Alt("schedules")},
          {Alt("external"), Alt("outside"), Alt("gmail"), Alt("yahoo"),
           Alt("personal")} >>,
       << {Alt("share")}, {Alt("payroll"), Alt("salary"), Alt("pii"),
                           Alt("passport"), Alt("visa")} >>,
       << {Alt("download")}, {<<"employee", "records">>, Alt("confidential"),
                              Alt("restricted")} >>,
       << {Alt("export")}, {Alt("hr"), Alt("crew"), Alt("employee"),
                            Alt("payroll"), Alt("confidential")} >> >>

\* re.IGNORECASE on the words of the model
LowerWord(w) ==
    CASE w = "Share" -> "share"
      [] w = "EXPORT" -> "export"
      [] OTHER -> w

\* The words of alternative ph stand in q from position i on
PhraseAt(q, i, ph) ==
    /\ i + Len(ph) - 1 <= Len(q)
    /\ \A k \in 1..Len(ph) : LowerWord(q[i + k - 1]) = ph[k]

\* The groups of pat occur in q in their order, the first not before `from`
RECURSIVE MatchFrom(_, _, _)
MatchFrom(pat, q, from) ==
    IF pat = <<>> THEN TRUE
    ELSE \E i \in from..Len(q) : \E ph \in Head(pat) :
            PhraseAt(q, i, ph) /\ MatchFrom(Tail(pat), q, i + Len(ph))

\* bool(re.search(pat, q, flags=re.IGNORECASE))
re_search(pat, q) == MatchFrom(pat, q, 1)

\* The loop of match_risky_intent from pattern i on; `tested` lists the
\* patterns re.search was called with
RECURSIVE MatchLoop(_, _, _)
MatchLoop(q, i, tested) ==
    IF i > Len(RISKY_PATTERNS)
    THEN [found |-> FALSE, pat |-> None, tested |-> tested]
    ELSE IF re_search(RISKY_PATTERNS[i], q)
         THEN [found |-> TRUE, pat |-> RISKY_PATTERNS[i],
               tested |-> Append(tested, i)]
         ELSE MatchLoop(q, i + 1, Append(tested, i))

\* A matcher that tests every pattern and keeps the last one that matches
RECURSIVE MatchLast(_, _, _)
MatchLast(q, i, best) ==
    IF i > Len(RISKY_PATTERNS) THEN best
    ELSE MatchLast(q, i + 1,
                   IF re_search(RISKY_PATTERNS[i], q)
                   THEN [found |-> TRUE, pat |-> RISKY_PATTERNS[i],
                         tested |-> Append(best.tested, i)]
                   ELSE [best EXCEPT !.tested = Append(best.tested, i)])

MatchLastIntent(q) ==
    MatchLast(q, 1, [found |-> FALSE, pat |-> None, tested |-> <<>>])

\* match_risky_intent
match_risky_intent(q) == MatchLoop(q, 1, <<>>)

\* Reasons that note a restricted probe whatever the retrieval returned
RiskReasonsAnyChunks(risky, chunks, restricted_count) ==
    (IF risky.found THEN <<[kind |-> "risky_intent", pat |-> risky.pat]>> ELSE <<>>)
    \o (IF restricted_count > 0 THEN <<[kind |-> "restricted_probe"]>> ELSE <<>>)

\* ask, lines 229-234: the reasons list
RiskReasons(risky, chunks, restricted_count) ==
    (IF risky.found THEN <<[kind |-> "risky_intent", pat |-> risky.pat]>> ELSE <<>>)
    \o (IF chunks = <<>> /\ restricted_count > 0
        THEN <<[kind |-> "restricted_probe"]>> ELSE <<>>)

\* The queries of the model
MaxQueryLen == 3

QueryWords ==
    {"email", "crew", "gmail", "share", "Share", "payroll", "download",
     "confidential", "export", "EXPORT", "employee", "records", "leave"}

Queries == SeqsUpTo(QueryWords, MaxQueryLen)

ProbeIntent ==
    /\ probe.kind = "none"
    /\ \E q \in Queries, n \in 0..1, rc \in {0, 2} :
          LET risky == match_risky_intent(q) IN
          probe' = [kind |-> "intent", q |-> q, risky |-> risky,
                    reasons |-> RiskReasons(risky, [i \in 1..n |-> Corpus[i]], rc)]
    /\ UNCHANGED storeVars

-----------------------------------------------------------------------------
(* src/api/main.py: _compute_confidence                                    *)
(*                                                                         *)
(* A float is [t |-> "float", v] with v its value in thousandths.  The     *)
(* blend 0.5*base + 0.5*score is kept in two-thousandths.  round(x, 2) of  *)
(* a value halfway between two hundredths depends on the nearest binary    *)
(* double, which the integers of the model do not hold: either neighbour   *)
(* is an outcome, chosen by half_up.                                       *)

F(m) == [t |-> "float", v |-> m]

\* float(x): the float of a number, ValueError or TypeError otherwise
ToFloat(x) ==
    CASE x.t = "float" -> Ok(x.v)
      [] x.t = "int" -> Ok(x.v * 1000)
      [] OTHER -> Raise

\* A rounding without the clamp to [0, 1]
Round2Unclamped(conf, half_up) ==
    LET low == (conf \div 20) * 10
    IN IF conf % 20 < 10 THEN low
       ELSE IF conf % 20 > 10 THEN low + 10
       ELSE IF half_up THEN low + 10 ELSE low

\* round(max(0.0, min(conf, 1.0)), 2) of conf two-thousandths, in thousandths
Round2(conf, half_up) ==
    LET c == Max(0, Min(conf, 2000))
        low == (c \div 20) * 10
    IN IF c % 20 < 10 THEN low
       ELSE IF c % 20 > 10 THEN low + 10
       ELSE IF half_up THEN low + 10 ELSE low

\* _compute_confidence
_compute_confidence(chunks, judge_score, restricted_removed, half_up) ==
    LET base0 == Min(350 + Min(Len(chunks), 5) * 100, 900)
        base == IF restricted_removed > 0 THEN base0 - 50 ELSE base0
        js == IF Falsy(judge_score) THEN Ok(600) ELSE ToFloat(judge_score)
    IN IF js.raised THEN Raise ELSE Ok(Round2(base + js.val, half_up))

\* The inputs of the model
MaxChunks == 6

NChunks(n) == [i \in 1..n |-> Corpus[1]]

JudgeScores ==
    {F(m) : m \in 0..1000} \cup {F(0 - 2000), F(1500), F(3000)}
    \cup {None, I(0), I(1), S("high")}

ProbeConfidence ==
    /\ probe.kind = "none"
    /\ \E n \in 0..MaxChunks, js \in JudgeScores, rr \in {0, 1}, up \in BOOLEAN :
          probe' = [kind |-> "conf", n |-> n, judge_score |-> js,
                    restricted_removed |-> rr,
                    out |-> _compute_confidence(NChunks(n), js, rr, up)]
    /\ UNCHANGED storeVars

-----------------------------------------------------------------------------
(* src/api/main.py: the ask handler                                        *)
(*                                                                         *)
(* The handler runs on a worker thread; its locals are in loc, with the    *)
(* calls it has made (calls), the rows it has handed to push_rows (rows)   *)
(* and the rows sent to the push URL (posted).  Requests share no state,   *)
(* so a behaviour serves one request.                                      *)

\* str.lower() of the search service's tolower(visibility)
LowerSym(x) == IF x = "Restricted" THEN "restricted" ELSE x

\* select=[...] of a search: the result document holds the selected fields
Select(doc, fields) == [k \in fields \cap DOMAIN doc |-> doc[k]]

\* count_restricted_hits of main.py over an index whose documents all match
count_restricted_hits(index) ==
    LET hits == FirstN(SelectSeq(index,
                    LAMBDA c : [i \in 1..Len(c.visibility) |-> LowerSym(c.visibility[i])]
                               = <<"restricted">>), 5)
        results == [i \in 1..Len(hits) |-> Select(hits[i], {"policy_id", "clause_id"})]
    IN [count |-> Len(results),
        meta |-> [i \in 1..Len(results) |->
                    [policy_id |-> results[i].policy_id,
                     clause_id |-> results[i].clause_id]]]

\* count_restricted_hits of retrieval/azure_retriever.py, which main.py imports
\* and then replaces by its own
azure_count_restricted_hits(index) ==
    LET hits == FirstN(SelectSeq(index, LAMBDA c : c.visibility = <<"restricted">>),
                       TopChunks)
        results == [i \in 1..Len(hits) |->
                      Select(hits[i], {"policy_id", "clause_id", "policy_title",
                                       "section", "visibility"})]
    IN [count |-> Len(results),
        meta |-> [i \in 1..Len(results) |->
                    [policy_id |-> results[i].policy_id,
                     clause_id |-> results[i].clause_id,
                     visibility |-> results[i].visibility]]]

HasReason(reasons, k) == \E i \in 1..Len(reasons) : reasons[i] = [kind |-> k]

\* A row whose score does not depend on the reasons
RowRiskScoreFlat(reasons) == 50

\* ask, line 247
RowRiskScore(reasons) == IF HasReason(reasons, "restricted_probe") THEN 70 ELSE 50

\* ask, lines 239-249: the telemetry row
TelemetryRow(l) ==
    [user_grade |-> l.grade, query |-> l.query, reason |-> l.reasons,
     restricted_hits |-> l.restricted_count,
     top_policies |-> [i \in 1..Min(3, Len(l.restricted_meta)) |->
                         <<l.restricted_meta[i].policy_id, "/",
                           l.restricted_meta[i].clause_id>>],
     risk_score |-> RowRiskScore(l.reasons),
     correlation_id |-> l.corr]

\* A handler that never takes the no-content branch
NoContentNever(chunks) == FALSE

\* ask, line 256: `if not chunks`
NoContent(chunks) == chunks = <<>>

\* The fallback of _llm_judge
DefaultJudge == D([grounding_score |-> F(600), issues |-> L(<<S("judge_error")>>)])

\* _llm_judge on what the judge model did: raised, answered text that is not
\* JSON, or answered the JSON text of value v
_llm_judge(outcome) ==
    CASE outcome.kind = "raise" -> DefaultJudge
      [] outcome.kind = "garbage" -> DefaultJudge
      [] OTHER -> outcome.v

Http500 == [h |-> "ask", status |-> 500]

\* ask, lines 284-332: from the judge's result to the response
AskTail(l, judge, half_up) ==
    IF judge.t # "dict" THEN Http500
    ELSE
    LET score == IF "grounding_score" \in DOMAIN judge.v
                 THEN judge.v["grounding_score"] ELSE F(600)
        restricted_removed == IF HasReason(l.reasons, "restricted_probe") THEN 1 ELSE 0
        confidence == _compute_confidence(l.chunks, score, restricted_removed, half_up)
        issues == DictGet(judge, "issues")
        judge_score == ToFloat(score)
    IN IF confidence.raised \/ judge_score.raised THEN Http500
       ELSE IF ~Falsy(issues) /\ issues.t # "list" THEN Http500
       ELSE [h |-> "ask", status |-> 200,
             answer |-> "generated",
             answer_from |-> [i \in 1..Len(l.chunks) |-> l.chunks[i].clause_text],
             highlights |-> [i \in 1..Min(5, Len(l.chunks)) |->
                               [policy_id |-> l.chunks[i].policy_id,
                                clause_id |-> l.chunks[i].clause_id,
                                snippet |-> l.chunks[i].clause_text]],
             confidence |-> F(confidence.val),
             restricted_probe |-> HasReason(l.reasons, "restricted_probe"),
             risk_reasons |-> (IF Falsy(issues) THEN <<>> ELSE issues.v) \o l.reasons,
             correlation_id |-> l.corr,
             judge_score |-> F(judge_score.val),
             judge_issues |-> IF Falsy(issues) THEN None ELSE issues]

\* ask, lines 257-266: the "no content" reply
NoContentReply(l) ==
    [h |-> "ask", status |-> 200,
     answer |-> "No matching policy content found.",
     answer_from |-> <<>>,
     highlights |-> <<>>,
     confidence |-> None,
     restricted_probe |-> HasReason(l.reasons, "restricted_probe"),
     risk_reasons |-> l.reasons,
     correlation_id |-> l.corr,
     judge_score |-> None,
     judge_issues |-> None]

\* The requests and the surroundings of the model
AskQueries == {<<"leave">>, <<"share", "payroll">>, <<"EXPORT", "Share", "payroll">>}

AskGrades == {None, T(G2), T(G3), T(GradeWithSyntax)}

Restricted5 ==
    [i \in 1..5 |-> Chunk(<<"Q1", "Q2", "Q3", "Q4", "Q5">>[i], "restricted", <<G3>>)]

Indexes == {<<>>, Corpus, <<Corpus[2], Corpus[3]>>, Restricted5}

CorrIds == {"uuid-a", "uuid-b"}

JudgeOutcomes ==
    {[kind |-> "raise"], [kind |-> "garbage"]}
    \cup {[kind |-> "json", v |-> v] :
            v \in {L(<<>>), F(700), None,
                   D([grounding_score |-> F(900), issues |-> L(<<>>)]),
                   D([grounding_score |-> F(300), issues |-> L(<<S("unsupported")>>)]),
                   D([grounding_score |-> F(0), issues |-> L(<<S("unsupported")>>)]),
                   D([grounding_score |-> S("high"), issues |-> L(<<>>)]),
                   D([grounding_score |-> None, issues |-> L(<<>>)]),
                   D([issues |-> L(<<>>)]),
                   D([grounding_score |-> F(800)]),
                   D([grounding_score |-> F(3000), issues |-> L(<<>>)]),
                   D([grounding_score |-> F(0 - 2000), issues |-> L(<<>>)])}}

\* What a finished request leaves for inspection next to its response
Seen(l) ==
    [query |-> l.query, grade |-> l.grade, index |-> l.index, chunks |-> l.chunks,
     restricted_count |-> l.restricted_count, restricted_meta |-> l.restricted_meta,
     reasons |-> l.reasons, calls |-> l.calls, rows |-> l.rows, posted |-> l.posted,
     judge |-> l.judge]

AskFinish(t, l, r) == Finish(t, r @@ [seen |-> Seen(l)])

AskUnchanged == UNCHANGED <<file, heap, cache, lock, booted, published, probe>>

\* ask, lines 205-217: grade, correlation id and the retrieval call
AskSearch(t) ==
    /\ pc[t] = "idle"
    /\ booted
    /\ nreq = 0
    /\ nreq' = 1
    /\ \E q \in AskQueries, g \in AskGrades, index \in Indexes, corr \in CorrIds,
          url \in BOOLEAN, up \in BOOLEAN :
          \E found \in {IF up THEN get_chunks(index, g)
                         ELSE [raised |-> TRUE, val |-> <<>>]} :
          \E l \in {[h |-> "ask", query |-> q, grade |-> g, index |-> index,
                     corr |-> corr, url |-> url, chunks |-> found.val,
                     restricted_count |-> 0, restricted_meta |-> <<>>,
                     reasons |-> <<>>, calls |-> <<"search">>, rows |-> <<>>,
                     posted |-> <<>>, judge |-> [kind |-> "none"]]} :
             IF found.raised
             THEN AskFinish(t, l, Http500)
             ELSE /\ pc' = [pc EXCEPT ![t] = "ask_peek"]
                  /\ loc' = [loc EXCEPT ![t] = l]
                  /\ UNCHANGED resp
    /\ AskUnchanged

\* ask, lines 219-234: the restricted peek, the intent match and the reasons
AskPeek(t) ==
    /\ pc[t] = "ask_peek"
    /\ \E ok \in BOOLEAN :
          LET peek == IF ok THEN count_restricted_hits(loc[t].index)
                      ELSE [count |-> 0, meta |-> <<>>]
              reasons == RiskReasons(match_risky_intent(loc[t].query),
                                     loc[t].chunks, peek.count)
          IN /\ loc' = [loc EXCEPT ![t].restricted_count = peek.count,
                                   ![t].restricted_meta = peek.meta,
                                   ![t].reasons = reasons,
                                   ![t].calls = Append(@, "peek")]
             /\ pc' = [pc EXCEPT ![t] = IF reasons # <<>> THEN "ask_row"
                                        ELSE "ask_reply"]
    /\ UNCHANGED <<resp, nreq>>
    /\ AskUnchanged

\* ask, lines 237-250, and push_rows up to its requests.post: the row is built
\* and handed to push_rows, which returns at once without a push URL and
\* otherwise sends the row and waits for the reply
AskPush(t) ==
    /\ pc[t] = "ask_row"
    /\ LET row == TelemetryRow(loc[t]) IN
       IF loc[t].url
       THEN /\ loc' = [loc EXCEPT ![t].rows = Append(@, row),
                                  ![t].posted = Append(@, row),
                                  ![t].calls = Append(@, "post")]
            /\ pc' = [pc EXCEPT ![t] = "ask_post"]
       ELSE /\ loc' = [loc EXCEPT ![t].rows = Append(@, row)]
            /\ pc' = [pc EXCEPT ![t] = "ask_reply"]
    /\ UNCHANGED <<resp, nreq>>
    /\ AskUnchanged

\* push_rows, lines 66-70: requests.post(url, json=rows, timeout=4) returns,
\* raises or times out; push_rows swallows the exception and returns
AskPostDone(t) ==
    /\ pc[t] = "ask_post"
    /\ \E outcome \in {"ok", "error", "timeout"} :
          loc' = [loc EXCEPT ![t].calls = Append(@, outcome)]
    /\ pc' = [pc EXCEPT ![t] = "ask_reply"]
    /\ UNCHANGED <<resp, nreq>>
    /\ AskUnchanged

\* ask, lines 256-266: nothing visible
AskNoContent(t) ==
    /\ pc[t] = "ask_reply"
    /\ NoContent(loc[t].chunks)
    /\ AskFinish(t, loc[t], NoContentReply(loc[t]))
    /\ UNCHANGED nreq
    /\ AskUnchanged

\* ask, lines 270-281: the answer generator, called outside any try
AskGenerate(t) ==
    /\ pc[t] = "ask_reply"
    /\ ~NoContent(loc[t].chunks)
    /\ \E ok \in BOOLEAN :
          LET l == [loc[t] EXCEPT !.calls = Append(@, "generate")] IN
          IF ok
          THEN /\ loc' = [loc EXCEPT ![t] = l]
               /\ pc' = [pc EXCEPT ![t] = "ask_judge"]
               /\ UNCHANGED resp
          ELSE AskFinish(t, l, Http500)
    /\ UNCHANGED nreq
    /\ AskUnchanged

\* ask, lines 284-332: the judge, the confidence and the response
AskJudge(t) ==
    /\ pc[t] = "ask_judge"
    /\ \E outcome \in JudgeOutcomes, half_up \in BOOLEAN :
          LET l == [loc[t] EXCEPT !.calls = Append(@, "judge"), !.judge = outcome]
          IN AskFinish(t, l, AskTail(l, _llm_judge(outcome), half_up))
    /\ UNCHANGED nreq
    /\ AskUnchanged

InitAsk ==
    /\ file = FileRules(<<>>)
    /\ heap = <<>>
    /\ cache = <<>>
    /\ lock = NoThread
    /\ pc = [t \in Threads |-> "idle"]
    /\ loc = [t \in Threads |-> Idle]
    /\ resp = [t \in Threads |-> Idle]
    /\ nreq = 0
    /\ booted = TRUE
    /\ published = <<>>
    /\ probe = [kind |-> "none"]

NextAsk ==
    \E t \in Threads :
        \/ AskSearch(t)
        \/ AskPeek(t)
        \/ AskPush(t)
        \/ AskPostDone(t)
        \/ AskNoContent(t)
        \/ AskGenerate(t)
        \/ AskJudge(t)

SpecAsk == InitAsk /\ [][NextAsk]_vars

-----------------------------------------------------------------------------
(* The pure functions of the ask pipeline on drawn inputs *)

\* One chunk of each kind the filters tell apart: the corpus, a chunk whose
\* visibility is spelled with a capital, and one with a third visibility
VisibilityChunks ==
    {Corpus[i] : i \in 1..Len(Corpus)}
    \cup {Chunk("CAP", "Restricted", <<G3>>), Chunk("INT", "internal", <<G3>>)}

\* The decision of each retriever's filter on one chunk under one grade, and
\* what the filters and the restricted peek take the chunk for
ProbeVisibility ==
    /\ probe.kind = "none"
    /\ \E c \in VisibilityChunks, g \in Grades :
          \E azure \in {SearchFilter(c, _policy_filter_for_grade(_normalize_grade(g)))} :
          \E azure_open \in
                {SearchFilter(c, _policy_filter_for_grade(_normalize_grade(None)))} :
          \E peek \in {count_restricted_hits(<<c>>)} :
             probe' = [kind |-> "visibility", chunk |-> c, grade |-> g,
                       local |-> allowed(c, g),
                       azure |-> azure,
                       local_open |-> allowed(c, None),
                       azure_open |-> azure_open,
                       peek |-> peek]
    /\ UNCHANGED storeVars

NextQuery ==
    \/ ProbeNormalize \/ ProbeChunks \/ ProbeIntent \/ ProbeConfidence
    \/ ProbeVisibility

SpecQuery == InitPure /\ [][NextQuery]_vars

-----------------------------------------------------------------------------
(* Claims *)

\* C1: every list get_rules() returns is the complete rule set of the last
\* completed set_rules at the moment of the read (the old set before a
\* publish completes, the new one after), never the cleared or a mixed list.
C1_AllOrNothing ==
    \A t \in Threads :
        /\ pc[t] \in {"ls_count", "an_loop"} => Deref(loc[t].rules) = loc[t].seen
        /\ resp[t].h = "list" =>
              resp[t].rules = resp[t].seen /\ resp[t].count = resp[t].seenCount

\* One list_rules saw the complete old set, then the complete new one
C1_Witness ==
    \E t \in Threads :
        /\ resp[t].h = "list"
        /\ resp[t].rules # <<>>
        /\ resp[t].count > Len(resp[t].rules)

\* C2: apply_rule never gets past its duplicate check with a rule whose id
\* is in the active rule set (no other request running).
C2_DuplicateRejected ==
    \A t \in Threads : pc[t] = "ap_open" => ~loc[t].dupActive

\* C3: no two rules of the active rule set share an id.
C3_UniqueIds == Cardinality(Ids(Deref(cache))) = Len(cache)

\* C4: every event of a batch is evaluated against the rule set that
\* analyze_events read when the batch began.
C4_OneSnapshotPerBatch ==
    \A t \in Threads :
        /\ pc[t] = "an_loop" =>
              \A k \in 1..Len(loc[t].used) : loc[t].used[k] = loc[t].seen
        /\ resp[t].h = "analyze" =>
              \A k \in 1..Len(resp[t].used) : resp[t].used[k] = resp[t].seen

\* A set_rules completed between the evaluation of two events of one batch
C4_Witness ==
    \E t \in Threads :
        /\ resp[t].h = "analyze"
        /\ Len(resp[t].used) = 2
        /\ resp[t].pubs[1] # resp[t].pubs[2]
        /\ resp[t].used[1] = resp[t].used[2]

\* C5: after a caller changed its snapshot (the list or a rule in it), a
\* later get_rules() returns the rule set as last published.
C5_SnapshotIsolated ==
    \A t \in Threads : resp[t].h = "client" => resp[t].rules = resp[t].seen

\* The ids of the rules of `rules` that eval_rule matches on ev, in order
RECURSIVE MatchingIds(_, _)
MatchingIds(rules, ev) ==
    IF rules = <<>> THEN <<>>
    ELSE LET r == eval_rule(Head(rules), ev) IN
         (IF ~r.raised /\ r.val THEN <<Head(rules).id>> ELSE <<>>)
            \o MatchingIds(Tail(rules), ev)

\* C6: for every event of a batch that matches a rule, analyze_events emits
\* one Anomaly whose signals are the ids of the matching rules in order.
C6_MatchEmitsAnomaly ==
    \A t \in Threads :
        resp[t].h = "analyze" =>
            \A k \in 1..Len(resp[t].events) :
                LET ev == resp[t].events[k]
                    ids == MatchingIds(resp[t].used[k], ev)
                IN ids # <<>> =>
                      \E a \in 1..Len(resp[t].anomalies) :
                          /\ resp[t].anomalies[a].event_id = ev.v.event_id
                          /\ resp[t].anomalies[a].signals = ids

C8_ScoreInRange ==
    (probe.kind = "emit" /\ probe.out # <<>>) =>
        probe.out[1].risk_score \in 0..100

C8_Witness ==
    /\ probe.kind = "emit"
    /\ probe.out # <<>>
    /\ probe.risk > 100
    /\ probe.out[1].risk_score = 100

\* C9: between_hours is true exactly when the hour lies in the window that
\* starts at `start` and is (end - start) mod 24 hours long: [start, end) when
\* start <= end, and from start over midnight to end when start > end; with
\* (22, 6) it holds at hours 23 and 2 and not at hour 10.
C9_BetweenHours ==
    probe.kind = "between" =>
        LET h == probe.ts.v.hour
            start == probe.start
            end == probe.end
        IN /\ probe.out = (((h - start + 24) % 24) < ((end - start + 24) % 24))
           /\ (start = 22 /\ end = 6 /\ h \in {23, 2}) => probe.out
           /\ (start = 22 /\ end = 6 /\ h = 10) => ~probe.out

C9_Witness ==
    /\ probe.kind = "between"
    /\ probe.start = 22
    /\ probe.end = 6
    /\ probe.ts.v.hour = 2
    /\ probe.out

\* C10: eval_rule returns the conjunction of the children under `all`, the
\* disjunction of the children under `any` (`all` is looked at first when a
\* clause has both keys), and false with neither key; children are the
\* conditions whose check returns a truth value.
C10_AllAnyNeither ==
    (probe.kind = "eval" /\ "when" \in DOMAIN probe.rule) =>
        LET c == probe.rule.when
            ev == probe.ev
            Clean(q) == \A i \in 1..Len(q) : ~Check(q[i], ev).raised
        IN /\ ("all" \in DOMAIN c /\ Clean(c.all)) =>
                 probe.out = Ok(\A i \in 1..Len(c.all) : Check(c.all[i], ev).val)
           /\ ("all" \notin DOMAIN c /\ "any" \in DOMAIN c /\ Clean(c.any)) =>
                 probe.out = Ok(\E i \in 1..Len(c.any) : Check(c.any[i], ev).val)
           /\ ("all" \notin DOMAIN c /\ "any" \notin DOMAIN c) => probe.out = Ok(FALSE)

\* An `any` clause with a false and a true child evaluated to true
C10_Witness ==
    /\ probe.kind = "eval"
    /\ "when" \in DOMAIN probe.rule
    /\ DOMAIN probe.rule.when = {"any"}
    /\ Len(probe.rule.when.any) = 2
    /\ ~Check(probe.rule.when.any[1], probe.ev).raised
    /\ ~Check(probe.rule.when.any[1], probe.ev).val
    /\ ~Check(probe.rule.when.any[2], probe.ev).raised
    /\ Check(probe.rule.when.any[2], probe.ev).val
    /\ probe.out = Ok(TRUE)

\* The grade g, normalised, is one of the chunk's allowed_grades
GradeMember(g, c) ==
    \E i \in 1..Len(c.allowed_grades) : c.allowed_grades[i] = _normalize_grade(g).v

HasChunk(q, id) == \E i \in 1..Len(q) : q[i].clause_id = id

\* C11: retrieval returns a restricted chunk only to a request whose grade is
\* one of the chunk's allowed_grades, and returns a non-restricted chunk under
\* every grade, in the search-service retriever and in the local one.
C11_RestrictedOnlyToMembers ==
    probe.kind = "chunks" =>
        /\ \A i \in 1..Len(probe.local) :
              probe.local[i].visibility = <<"restricted">>
                  => GradeMember(probe.grade, probe.local[i])
        /\ HasChunk(probe.local, "PUB")
        /\ ~probe.azure.raised =>
              /\ \A i \in 1..Len(probe.azure.val) :
                    probe.azure.val[i].visibility = <<"restricted">>
                        => GradeMember(probe.grade, probe.azure.val[i])
              /\ HasChunk(probe.azure.val, "PUB")

\* The text a raw grade becomes when it is trimmed and upper-cased and given
\* the prefix letter G where it lacks it
UpperSym(x) == IF x = "g" THEN "G" ELSE x

PrefixedUpper(q) ==
    LET u == [i \in 1..Len(Strip(q)) |-> UpperSym(Strip(q)[i])] IN
    IF u # <<>> /\ u[1] = "G" THEN u ELSE <<"G">> \o u

\* C12: normalising a non-blank raw grade trims it, upper-cases it and puts
\* the letter G in front where it is missing: "3" and " g3 " both give "G3".
C12_UppercaseTrimPrefix ==
    probe.kind = "grade" /\ ~Falsy(probe.g) /\ Strip(probe.g.v) # <<>>
        => probe.out = T(PrefixedUpper(probe.g.v))

\* C13: normalising a normalised grade changes nothing, for every raw grade,
\* the empty and the absent one included.
C13_NormalizeIdempotent ==
    probe.kind = "grade" => probe.again = probe.out

C13_Witness ==
    /\ probe.kind = "grade"
    /\ probe.g = T(<<" ", " ">> \o G3)
    /\ probe.out = T(G3)
    /\ probe.again = T(G3)

\* The patterns of the bank that match q, by their place in the bank
Hits(q) == {i \in 1..Len(RISKY_PATTERNS) : re_search(RISKY_PATTERNS[i], q)}

Least(s) == CHOOSE i \in s : \A j \in s : i <= j

\* C15: match_risky_intent returns the first pattern of the bank that matches
\* the query and tests none after it, returns None only when none matches,
\* and the reason risky_intent: of ask names that first pattern.
C15_FirstMatchWins ==
    probe.kind = "intent" =>
        LET hits == Hits(probe.q) IN
        IF hits = {}
        THEN /\ ~probe.risky.found
             /\ probe.risky.pat = None
             /\ \A i \in 1..Len(probe.reasons) : probe.reasons[i].kind # "risky_intent"
        ELSE /\ probe.risky.found
             /\ probe.risky.pat = RISKY_PATTERNS[Least(hits)]
             /\ probe.risky.tested = [i \in 1..Least(hits) |-> i]
             /\ probe.reasons[1] = [kind |-> "risky_intent",
                                    pat |-> RISKY_PATTERNS[Least(hits)]]
             /\ \A i \in 2..Len(probe.reasons) : probe.reasons[i].kind # "risky_intent"

C15_Witness ==
    /\ probe.kind = "intent"
    /\ probe.q = <<"EXPORT", "Share", "payroll">>
    /\ Hits(probe.q) = {2, 4}
    /\ probe.risky.pat = RISKY_PATTERNS[2]
    /\ probe.risky.tested = <<1, 2>>

\* base = min(0.35 + 0.1 * min(chunkCount, 5), 0.9), less 0.05 on a probe,
\* in thousandths
BlendBase(n, probed) ==
    Min(350 + 100 * Min(n, 5), 900) - (IF probed THEN 50 ELSE 0)

\* The hundredths nearest to c two-thousandths, both of them at a half
Nearest2(c) ==
    IF c % 20 = 10 THEN {(c \div 20) * 10, (c \div 20) * 10 + 10}
    ELSE IF c % 20 < 10 THEN {(c \div 20) * 10} ELSE {(c \div 20) * 10 + 10}

\* C20: for every chunk count >= 1, every judge score from 0 to 1 and either
\* probe flag the confidence is 0.5*base + 0.5*score, clamped to [0, 1] and
\* rounded to two decimals.
C20_ConfidenceBlend ==
    probe.kind = "conf" /\ probe.n >= 1 /\ probe.judge_score.t = "float"
    /\ probe.judge_score.v >= 0 /\ probe.judge_score.v <= 1000
        => /\ ~probe.out.raised
           /\ probe.out.val \in
                 Nearest2(Max(0, Min(2000,
                     BlendBase(probe.n, probe.restricted_removed > 0)
                     + probe.judge_score.v)))

\* The requests that have been answered, and what they went through
Asked(t) == resp[t].h = "ask"

Called(t, c) == \E i \in 1..Len(resp[t].seen.calls) : resp[t].seen.calls[i] = c

\* C14: the reasons of ask hold restricted_probe exactly when retrieval
\* returned no visible chunk and the restricted-match count is above 0, in
\* the handler's reasons list and in the response built from it.
C14_ProbeReasonIff ==
    \A t \in Threads :
        /\ pc[t] \in {"ask_row", "ask_post", "ask_reply", "ask_judge"} =>
              (HasReason(loc[t].reasons, "restricted_probe")
                  <=> (loc[t].chunks = <<>> /\ loc[t].restricted_count > 0))
        /\ Asked(t) /\ resp[t].status = 200 =>
              /\ HasReason(resp[t].risk_reasons, "restricted_probe")
                    <=> (resp[t].seen.chunks = <<>> /\ resp[t].seen.restricted_count > 0)
              /\ resp[t].restricted_probe
                    <=> (resp[t].seen.chunks = <<>> /\ resp[t].seen.restricted_count > 0)

C14_Witness ==
    \E t \in Threads :
        /\ Asked(t) /\ resp[t].status = 200
        /\ resp[t].seen.chunks = <<>> /\ resp[t].seen.restricted_count = 2
        /\ HasReason(resp[t].risk_reasons, "restricted_probe")

\* C16: an answered request has handed exactly one telemetry row to push_rows
\* when its reasons are non-empty and none when they are empty; the row's
\* risk score is 70 with restricted_probe among the reasons and 50 without,
\* it names at most 3 restricted clauses, and it carries the correlation id
\* of the response.
C16_OneRowPerRiskyRequest ==
    \A t \in Threads : Asked(t) /\ Called(t, "peek") =>
        LET s == resp[t].seen IN
        /\ Len(s.rows) = IF s.reasons # <<>> THEN 1 ELSE 0
        /\ \A i \in 1..Len(s.rows) :
              /\ s.rows[i].risk_score
                    = IF HasReason(s.reasons, "restricted_probe") THEN 70 ELSE 50
              /\ Len(s.rows[i].top_policies) <= 3
              /\ resp[t].status = 200 => s.rows[i].correlation_id = resp[t].correlation_id

C16_Witness ==
    \E t \in Threads :
        /\ Asked(t) /\ resp[t].status = 200
        /\ resp[t].seen.restricted_count = 5
        /\ Len(resp[t].seen.rows) = 1
        /\ resp[t].seen.rows[1].risk_score = 70
        /\ Len(resp[t].seen.rows[1].top_policies) = 3
        /\ resp[t].seen.rows[1].correlation_id = resp[t].correlation_id

\* C17: the answer of ask neither fails on a failed telemetry emit nor waits
\* for the emit: while the row's post is still in flight the handler can go
\* on to its reply, and a request whose post failed or timed out still goes
\* on to its reply.
C17_AnswerDoesNotWaitOnEmit ==
    \A t \in Threads :
        /\ pc[t] = "ask_post" => ENABLED (AskNoContent(t) \/ AskGenerate(t))
        /\ Asked(t) /\ (Called(t, "error") \/ Called(t, "timeout")) =>
              (Called(t, "generate") \/ resp[t].status = 200)

\* C18: a request whose retrieval returned no visible chunk gets the "no
\* content" reply with confidence null, and neither the answer generator nor
\* the judge is called for it.
C18_NoContentShortCircuit ==
    \A t \in Threads :
        /\ pc[t] \in {"ask_peek", "ask_row", "ask_post", "ask_reply", "ask_judge"}
           /\ loc[t].chunks = <<>> =>
              \A i \in 1..Len(loc[t].calls) : loc[t].calls[i] \notin {"generate", "judge"}
        /\ Asked(t) /\ Called(t, "peek") /\ resp[t].seen.chunks = <<>> =>
              /\ resp[t].status = 200
              /\ resp[t].answer = "No matching policy content found."
              /\ resp[t].confidence = None
              /\ ~Called(t, "generate") /\ ~Called(t, "judge")

C18_Witness ==
    \E t \in Threads :
        /\ Asked(t) /\ Called(t, "peek") /\ resp[t].seen.chunks = <<>>
        /\ resp[t].answer = "No matching policy content found."
        /\ resp[t].confidence = None
        /\ ~Called(t, "generate")

\* The judge raised, or answered something that is not an object with a
\* numeric grounding_score
JudgeFailed(o) ==
    \/ o.kind \in {"raise", "garbage"}
    \/ /\ o.kind = "json"
       /\ \/ o.v.t # "dict"
          \/ /\ "grounding_score" \in DOMAIN o.v.v
             /\ o.v.v["grounding_score"].t \notin {"float", "int"}

\* C19: a request whose judge failed is still answered with the generated
\* answer, the default score 0.6 and the issue judge_error.
C19_JudgeFailureTolerated ==
    \A t \in Threads : Asked(t) /\ JudgeFailed(resp[t].seen.judge) =>
        /\ resp[t].status = 200
        /\ resp[t].answer = "generated"
        /\ resp[t].judge_score = F(600)
        /\ resp[t].judge_issues = L(<<S("judge_error")>>)

\* C21: an answer of ask has confidence null exactly when retrieval returned
\* no visible chunk, and otherwise a confidence from 0 to 1, also when the
\* judge's score lies outside [0, 1].
C21_ConfidenceNullOrInRange ==
    \A t \in Threads : Asked(t) /\ resp[t].status = 200 =>
        IF resp[t].seen.chunks = <<>>
        THEN resp[t].confidence = None
        ELSE /\ resp[t].confidence.t = "float"
             /\ resp[t].confidence.v >= 0
             /\ resp[t].confidence.v <= 1000

C21_Witness ==
    \E t \in Threads :
        /\ Asked(t) /\ resp[t].status = 200
        /\ resp[t].seen.chunks # <<>>
        /\ resp[t].judge_score = F(3000)
        /\ resp[t].confidence = F(1000)

\* The score ask reads from the judge's result
ScoreOf(outcome) ==
    LET j == _llm_judge(outcome) IN
    IF "grounding_score" \in DOMAIN j.v THEN j.v["grounding_score"] ELSE F(600)

\* C28: a request that reaches the confidence computation has no
\* restricted_probe among its reasons, so its confidence is the one computed
\* with restricted_removed = 0, and every answer with a confidence has
\* restricted_probe false.
C28_NoProbePenalty ==
    \A t \in Threads :
        /\ pc[t] = "ask_judge" =>
              /\ ~HasReason(loc[t].reasons, "restricted_probe")
              /\ loc[t].chunks # <<>>
        /\ Asked(t) /\ resp[t].status = 200 /\ resp[t].confidence # None =>
              /\ ~resp[t].restricted_probe
              /\ ~HasReason(resp[t].risk_reasons, "restricted_probe")
              /\ \E up \in BOOLEAN :
                    resp[t].confidence =
                        F(_compute_confidence(resp[t].seen.chunks,
                                              ScoreOf(resp[t].seen.judge), 0, up).val)

C28_Witness ==
    \E t \in Threads :
        /\ Asked(t) /\ resp[t].status = 200
        /\ resp[t].seen.restricted_count = 3
        /\ Len(resp[t].seen.chunks) = 3
        /\ resp[t].confidence = F(780)
        /\ ~resp[t].restricted_probe


\* The clause texts a response of ask carries: the context given to the
\* generator and the snippets of the highlights
ResponseTexts(r) ==
    IF r.status = 200
    THEN {r.answer_from[i] : i \in 1..Len(r.answer_from)}
         \cup {r.highlights[i].snippet : i \in 1..Len(r.highlights)}
    ELSE {}

\* The strings of the telemetry rows of a request, apart from its own inputs
RowTexts(rows) ==
    UNION {{rows[i].top_policies[j] : j \in 1..Len(rows[i].top_policies)} :
           i \in 1..Len(rows)}

\* The restricted clauses of the index that the grade is not a member of
Hidden(index, g) ==
    {index[i] : i \in {j \in 1..Len(index) :
                         /\ index[j].visibility # <<"public">>
                         /\ ~GradeMember(g, index[j])}}

\* C23: the restricted peek of ask returns a count and entries that hold
\* policy_id and clause_id only, no entry carries clause text, and the text of
\* a restricted clause whose allowed grades do not include the request's
\* grade is neither in the response of ask nor in its telemetry row.
C23_NoRestrictedText ==
    \A t \in Threads : Asked(t) =>
        /\ \A i \in 1..Len(resp[t].seen.restricted_meta) :
              DOMAIN resp[t].seen.restricted_meta[i] = {"policy_id", "clause_id"}
        /\ \A i \in 1..Len(azure_count_restricted_hits(resp[t].seen.index).meta) :
              "clause_text" \notin
                  DOMAIN azure_count_restricted_hits(resp[t].seen.index).meta[i]
        /\ \A c \in Hidden(resp[t].seen.index, resp[t].seen.grade) :
              /\ c.clause_text \notin ResponseTexts(resp[t])
              /\ c.clause_text \notin RowTexts(resp[t].seen.rows)


\* The fields C22 names
OptionalFields ==
    {"name", "description", "match", "conditions", "severity", "risk_points",
     "remediation"}

Elems(q) == {q[i] : i \in 1..Len(q)}

\* One answer of apply_rule, seen at the step that gives it
C22_Step(t) ==
    resp'[t] # resp[t] /\ resp'[t].h = "apply" =>
        IF resp'[t].rule = NotARule
        THEN resp'[t].status = 500 /\ file' = file /\ cache' = cache
        ELSE /\ pc[t] = "idle" /\ resp'[t].status = 500 => file.kind = "garbage"
             /\ pc[t] = "idle" /\ resp'[t].status = 409 =>
                    file.kind = "rules" /\ resp'[t].rule.id \in Ids(file.rules)
             /\ resp'[t].status = 200 =>
                    \A k \in OptionalFields \ DOMAIN resp'[t].rule :
                        <<"Missing key: ", k>> \in Elems(resp'[t].message)
             /\ resp'[t].status = 200 /\ nreq' = 1 =>
                    /\ file'.kind = "rules"
                    /\ resp'[t].rule \in Elems(file'.rules)
                    /\ resp'[t].rule \in Elems(Deref(cache'))

\* C22: apply_rule given a mapping that lacks some of name, description,
\* match, conditions, severity, risk_points, remediation is refused only for
\* the file or the id, never for the missing fields; its ok answer names each
\* missing field in a warning and, with no other request about, leaves the
\* rule in the file and in the active set. Text that is no mapping gets an
\* error and leaves the file and the active set as they were.
C22_IncompleteRuleApplied == [][\A t \in Threads : C22_Step(t)]_vars

C22_Witness ==
    \E t \in Threads :
        /\ resp[t].h = "apply" /\ resp[t].status = 200 /\ nreq = 1
        /\ resp[t].rule = RuleC
        /\ <<"Missing key: ", "severity">> \in Elems(resp[t].message)
        /\ RuleC \in Elems(Deref(cache))
        /\ file.kind = "rules" /\ RuleC \in Elems(file.rules)


\* C24: a read is never blocked by a write in progress: whenever one request
\* is inside set_rules, between its clear and its extend, the get_rules call
\* another request has come to can be taken at once.
C24_ReadNeverBlocked ==
    \A w \in Threads : \A r \in Others(w) :
        pc[w] = "set_extend" /\ pc[r] = "ls_count" => ENABLED ListCount(r)


\* C25: for every chunk and raw grade the local filter and the search-service
\* filter make the same decision, and the restricted peek counts exactly the
\* chunks that the two filters keep from a request without a grade.
C25_OneVisibilityDefinition ==
    probe.kind = "visibility" =>
        /\ ~probe.azure.raised
        /\ probe.local <=> probe.azure.val
        /\ ~probe.azure_open.raised
        /\ probe.peek.count = 1 <=> ~probe.local_open
        /\ probe.peek.count = 1 <=> ~probe.azure_open.val

ApplyOk(t) == resp[t].h = "apply" /\ resp[t].status = 200

\* C26: when two apply_rule requests with different new ids have both
\* answered ok and no request is running, the rules file and the active set
\* hold both rules.
C26_NoLostUpdate ==
    \A t \in Threads : \A u \in Others(t) :
        /\ pc[t] = "idle" /\ pc[u] = "idle"
        /\ ApplyOk(t) /\ ApplyOk(u)
        /\ resp[t].rule.id # resp[u].rule.id
        /\ file.kind = "rules"
        => /\ {resp[t].rule, resp[u].rule} \subseteq Elems(file.rules)
           /\ {resp[t].rule, resp[u].rule} \subseteq Elems(Deref(cache))


\* C27: once every apply_rule and reload_rules request has completed, at
\* least one of them with an ok answer, the active set is the rule list of
\* the rules file: no request that loaded an older file publishes after one
\* that loaded a newer file.
C27_ActiveSetIsFile ==
    /\ \A t \in Threads : pc[t] = "idle"
    /\ \E t \in Threads : resp[t].h \in {"apply", "reload"} /\ resp[t].status = 200
    /\ file.kind = "rules"
    => Deref(cache) = file.rules


\* The rules file cannot be read or parsed, or its `rules` is not a list
Unloadable(f) == f.kind \in {"missing", "garbage", "nolist"}

\* C29: a reload_rules request that finds the rules file unreadable,
\* unparsable or with a `rules` entry that is not a list answers with an
\* error and leaves the active set as it was, and so does the load at
\* startup; a reload that goes on to set_rules has loaded the file.
C29_FailedLoadKeepsRules ==
    [][/\ \A t \in Threads :
            /\ ReloadBegin(t) /\ Unloadable(file) =>
                  /\ resp'[t].h = "reload" /\ resp'[t].status = 500
                  /\ pc'[t] = "idle"
                  /\ cache' = cache /\ published' = published
            /\ ReloadBegin(t) /\ pc'[t] = "set_clear" => ~Unloadable(file)
       /\ Startup /\ Unloadable(file') => cache' = cache /\ booted']_vars

\* A reload has failed while the active set held a rule, and the set still
\* holds it
C29_Witness ==
    \E t \in Threads :
        /\ resp[t].h = "reload" /\ resp[t].status = 500
        /\ \A u \in Threads : pc[u] = "idle"
        /\ Unloadable(file)
        /\ cache # <<>>
        /\ Deref(cache) = published

====
